---------------------------- MODULE Spec2Model ----------------------------
(***************************************************************************)
(* Prompt-to-token-sequence construction of gemma.cpp                      *)
(* (src/gemma/tokenizer.cc): WrapAndTokenize and WrapVLM.                  *)
(*                                                                         *)
(* A behaviour is one call of WrapAndTokenize or of WrapVLM by a caller,   *)
(* followed step by step from entry to its return or to the fatal abort of *)
(* a failed HWY_ASSERT.  The SentencePiece processor behind                *)
(* GemmaTokenizer::Encode is an external library: it is modelled as an     *)
(* unknown but fixed function from texts to outcomes, revealed one text at *)
(* a time (spp), so that encoding the same text twice answers the same.    *)
(***************************************************************************)
EXTENDS Integers, Sequences, FiniteSets, TLC

(***************************************************************************)
(* Bounds of the model.                                                    *)
(***************************************************************************)
MaxTokenId    == 4   \* largest vocabulary id the tokenizer may emit
MaxEncLen     == 1   \* longest id sequence one Encode call may produce
MaxPos        == 1   \* largest conversation position
MaxImageBatch == 3   \* largest image_batch_size
MaxPerBatch   == 2   \* largest max_image_batch_size (the least is 1:
                     \* DivCeil divides by it)

(***************************************************************************)
(* Program constants.                                                      *)
(***************************************************************************)
BOS_ID == 2
IMAGE_PLACEHOLDER_ID == -2

PromptWrapping == {"PRETRAINED", "INSTRUCTION_TUNED", "PALIGEMMA", "GEMMA_VLM"}

\* The string literals of the code.
kSeparator        == "\n"
kBeginImagePrompt == "\n\n<start_of_image>"
kEndImagePrompt   == "<end_of_image>\n\n"

(***************************************************************************)
(* Inputs.                                                                 *)
(***************************************************************************)
Prompts   == {"", "Describe", "\n"}
Positions == 0 .. MaxPos

\* Ids Encode can produce from text: ordinary vocabulary ids.  The control
\* ids up to BOS_ID (pad, eos, bos) are never produced from text.
Vocab == (BOS_ID + 1) .. MaxTokenId

RECURSIVE SeqsUpTo(_, _)
SeqsUpTo(S, n) ==
    IF n = 0 THEN {<<>>}
    ELSE LET shorter == SeqsUpTo(S, n - 1)
         IN  shorter \cup {Append(s, x) : s \in shorter, x \in S}

\* What one Encode call may answer: failure, or success with some ids.
EncodeFailure == [ok |-> FALSE, ids |-> <<>>]
SppResults ==
    {EncodeFailure} \cup {[ok |-> TRUE, ids |-> s] : s \in SeqsUpTo(Vocab, MaxEncLen)}

\* The sequences a caller hands to WrapVLM: built at the same position by
\* an earlier WrapAndTokenize of the text part of the prompt.
CallerTokens(p) ==
    {(IF p = 0 THEN <<BOS_ID>> ELSE <<>>) \o s : s \in {<<>>} \cup {<<t>> : t \in Vocab}}

VARIABLES
    op,                    \* the function the caller invoked
    wrapping,              \* info.wrapping
    pos,                   \* pos
    prompt,                \* the std::string& prompt of WrapAndTokenize
    prompt_in,             \* its value on entry of a top-level WrapAndTokenize
    tokens,                \* the std::vector<int>& tokens of WrapVLM
    tokens_in,             \* its value on entry
    image_batch_size,
    max_image_batch_size,
    spp,                   \* texts encoded so far |-> the processor's answer
    encode_calls,          \* the texts handed to Encode, in call order
    pc,                    \* position in the code
    w_caller,              \* who receives WrapAndTokenize's return value
    w_tokens,              \* local `tokens` of WrapAndTokenize
    sep_tokens,            \* locals of WrapVLM
    begin_image_tokens,
    end_image_tokens,
    num_images,
    i,
    returned,              \* the top-level call returned
    ret                    \* the vector it returned

vars == <<op, wrapping, pos, prompt, prompt_in, tokens, tokens_in,
          image_batch_size, max_image_batch_size, spp, encode_calls, pc,
          w_caller, w_tokens, sep_tokens, begin_image_tokens,
          end_image_tokens, num_images, i, returned, ret>>

inputs == <<op, wrapping, pos, prompt_in, tokens_in, image_batch_size,
            max_image_batch_size>>
vlm_locals == <<sep_tokens, begin_image_tokens, end_image_tokens,
                num_images, i>>

(***************************************************************************)
(* Helpers.                                                                *)
(***************************************************************************)
\* Wrap(info, pos, prompt) of gemma/common.h: rewrites the prompt in place.
\* Instruction-tuned prompts get turn markup, the others stay as they are.
Wrap(w, p, s) ==
    IF w = "INSTRUCTION_TUNED"
    THEN (IF p = 0 THEN "<start_of_turn>user\n"
                   ELSE "<end_of_turn>\n<start_of_turn>user\n")
         \o s \o "<end_of_turn>\n<start_of_turn>model\n"
    ELSE s

\* std::vector::insert(begin() + idx, elems...)
InsertAt(v, idx, elems) ==
    SubSeq(v, 1, idx) \o elems \o SubSeq(v, idx + 1, Len(v))

\* n copies of x
Fill(n, x) == [k \in 1 .. n |-> x]

\* Faults of DivCeil: rounding down; one block too many.
DivCeil_Floor(a, b) == a \div b
DivCeil_PlusOne(a, b) == (a \div b) + 1

\* hwy::DivCeil(a, b)
DivCeil(a, b) == (a + b - 1) \div b

\* Fault: the result of Encode is not checked.
EncodeChecked_Off(ok) == TRUE

\* HWY_ASSERT(tokenizer.Encode(...)): execution continues iff Encode said ok.
EncodeChecked(ok) == ok

\* Fault: the wrapping mode is not checked.
VlmPrecondition_Off(w) == TRUE

\* HWY_ASSERT(info.wrapping == PromptWrapping::GEMMA_VLM)
VlmPrecondition(w) == w = "GEMMA_VLM"

\* Faults of the BOS rule: BOS at the back; BOS at every position.
InsertBos_Back(p, v) == IF p = 0 THEN InsertAt(v, Len(v), <<BOS_ID>>) ELSE v
InsertBos_Always(p, v) == InsertAt(v, 0, <<BOS_ID>>)

\* if (pos == 0) tokens.insert(tokens.begin(), BOS_ID);
InsertBos(p, v) == IF p = 0 THEN InsertAt(v, 0, <<BOS_ID>>) ELSE v

\* Fault: the commented-out GEMMA_VLM alternative is enabled.
NeedsSeparator_AlsoVlm(w) == w = "PALIGEMMA" \/ w = "GEMMA_VLM"

\* if (info.wrapping == PromptWrapping::PALIGEMMA /* || GEMMA_VLM */)
NeedsSeparator(w) == w = "PALIGEMMA"

\* Fault: the separator is inserted at the front.
AppendSeparator_Front(v, sep) == InsertAt(v, 0, sep)

\* tokens.insert(tokens.end(), sep_tokens.begin(), sep_tokens.end());
AppendSeparator(v, sep) == InsertAt(v, Len(v), sep)

\* Fault: the end marker is inserted one element too early.
InsertImageBlock_OffByOne(v, begin, n, end) ==
    LET v1 == InsertAt(v, 0, begin)
        v2 == InsertAt(v1, Len(begin), Fill(n, IMAGE_PLACEHOLDER_ID))
        at == IF Len(begin) + n > 0 THEN Len(begin) + n - 1 ELSE 0
    IN  InsertAt(v2, at, end)

\* One iteration of the loop of WrapVLM.
InsertImageBlock(v, begin, n, end) ==
    LET v1 == InsertAt(v, 0, begin)
        v2 == InsertAt(v1, Len(begin), Fill(n, IMAGE_PLACEHOLDER_ID))
    IN  InsertAt(v2, Len(begin) + n, end)

\* The answers the processor may give for `text`: the one it gave before,
\* or any answer when the text is encoded for the first time.
EncodeOutcomes(text) ==
    IF text \in DOMAIN spp THEN {spp[text]} ELSE SppResults

\* GemmaTokenizer::Encode(text, &ids) answering r.
Encode(text, r) ==
    /\ spp' = spp @@ (text :> r)
    /\ encode_calls' = Append(encode_calls, text)

(***************************************************************************)
(* Initial states: the caller is about to invoke one of the two functions. *)
(***************************************************************************)
Init ==
    /\ op \in {"WrapAndTokenize", "WrapVLM"}
    /\ wrapping \in PromptWrapping
    /\ pos \in Positions
    /\ IF op = "WrapAndTokenize"
       THEN /\ prompt \in Prompts
            /\ tokens = <<>>
            /\ image_batch_size = 0
            /\ max_image_batch_size = 1
            /\ pc = "wat_wrap"
            /\ w_caller = "top"
       ELSE /\ prompt = ""
            /\ tokens \in CallerTokens(pos)
            /\ image_batch_size \in 0 .. MaxImageBatch
            /\ max_image_batch_size \in 1 .. MaxPerBatch
            /\ pc = "vlm_assert"
            /\ w_caller = "none"
    /\ prompt_in = prompt
    /\ tokens_in = tokens
    /\ spp = <<>>
    /\ encode_calls = <<>>
    /\ w_tokens = <<>>
    /\ sep_tokens = <<>>
    /\ begin_image_tokens = <<>>
    /\ end_image_tokens = <<>>
    /\ num_images = 0
    /\ i = 0
    /\ returned = FALSE
    /\ ret = <<>>

(***************************************************************************)
(* WrapAndTokenize                                                         *)
(***************************************************************************)
\* Wrap(info, pos, prompt); std::vector<int> tokens;
WAT_Wrap ==
    /\ pc = "wat_wrap"
    /\ prompt' = Wrap(wrapping, pos, prompt)
    /\ w_tokens' = <<>>
    /\ pc' = "wat_encode"
    /\ UNCHANGED <<inputs, tokens, spp, encode_calls, w_caller, vlm_locals,
                   returned, ret>>

\* HWY_ASSERT(tokenizer.Encode(prompt, &tokens));
WAT_Encode ==
    /\ pc = "wat_encode"
    /\ \E r \in EncodeOutcomes(prompt) :
         /\ Encode(prompt, r)
         /\ w_tokens' = r.ids
         /\ pc' = IF EncodeChecked(r.ok) THEN "wat_bos" ELSE "aborted"
    /\ UNCHANGED <<inputs, prompt, tokens, w_caller, vlm_locals, returned, ret>>

\* if (pos == 0) { tokens.insert(tokens.begin(), BOS_ID); }
WAT_Bos ==
    /\ pc = "wat_bos"
    /\ w_tokens' = InsertBos(pos, w_tokens)
    /\ pc' = "wat_sep"
    /\ UNCHANGED <<inputs, prompt, tokens, spp, encode_calls, w_caller,
                   vlm_locals, returned, ret>>

\* if (PALIGEMMA) { HWY_ASSERT(tokenizer.Encode("\n", &sep_tokens)); append }
WAT_Separator ==
    /\ pc = "wat_sep"
    /\ NeedsSeparator(wrapping)
    /\ \E r \in EncodeOutcomes(kSeparator) :
         /\ Encode(kSeparator, r)
         /\ IF EncodeChecked(r.ok)
            THEN /\ w_tokens' = AppendSeparator(w_tokens, r.ids)
                 /\ pc' = "wat_ret"
            ELSE /\ pc' = "aborted"
                 /\ UNCHANGED w_tokens
    /\ UNCHANGED <<inputs, prompt, tokens, w_caller, vlm_locals, returned, ret>>

WAT_NoSeparator ==
    /\ pc = "wat_sep"
    /\ ~NeedsSeparator(wrapping)
    /\ pc' = "wat_ret"
    /\ UNCHANGED <<inputs, prompt, tokens, spp, encode_calls, w_caller,
                   w_tokens, vlm_locals, returned, ret>>

\* return tokens;  (to the caller of the top-level call)
WAT_Return ==
    /\ pc = "wat_ret"
    /\ w_caller = "top"
    /\ ret' = w_tokens
    /\ returned' = TRUE
    /\ pc' = "done"
    /\ UNCHANGED <<inputs, prompt, tokens, spp, encode_calls, w_caller,
                   w_tokens, vlm_locals>>

\* return tokens;  (into begin_image_tokens of WrapVLM)
WAT_ReturnBegin ==
    /\ pc = "wat_ret"
    /\ w_caller = "begin"
    /\ begin_image_tokens' = w_tokens
    /\ pc' = "vlm_end"
    /\ UNCHANGED <<inputs, prompt, tokens, spp, encode_calls, w_caller,
                   w_tokens, sep_tokens, end_image_tokens, num_images, i,
                   returned, ret>>

\* return tokens;  (into end_image_tokens of WrapVLM)
WAT_ReturnEnd ==
    /\ pc = "wat_ret"
    /\ w_caller = "end"
    /\ end_image_tokens' = w_tokens
    /\ pc' = "vlm_loop"
    /\ UNCHANGED <<inputs, prompt, tokens, spp, encode_calls, w_caller,
                   w_tokens, sep_tokens, begin_image_tokens, num_images, i,
                   returned, ret>>

(***************************************************************************)
(* WrapVLM                                                                 *)
(***************************************************************************)
\* HWY_ASSERT(info.wrapping == GEMMA_VLM); num_images = DivCeil(...);
VLM_Assert ==
    /\ pc = "vlm_assert"
    /\ IF VlmPrecondition(wrapping)
       THEN /\ num_images' = DivCeil(image_batch_size, max_image_batch_size)
            /\ pc' = "vlm_sep"
       ELSE /\ pc' = "aborted"
            /\ UNCHANGED num_images
    /\ UNCHANGED <<inputs, prompt, tokens, spp, encode_calls, w_caller,
                   w_tokens, sep_tokens, begin_image_tokens,
                   end_image_tokens, i, returned, ret>>

\* std::vector<int> sep_tokens; HWY_ASSERT(tokenizer.Encode("\n", &sep_tokens));
VLM_EncodeSep ==
    /\ pc = "vlm_sep"
    /\ \E r \in EncodeOutcomes(kSeparator) :
         /\ Encode(kSeparator, r)
         /\ sep_tokens' = r.ids
         /\ pc' = IF EncodeChecked(r.ok) THEN "vlm_begin" ELSE "aborted"
    /\ UNCHANGED <<inputs, prompt, tokens, w_caller, w_tokens,
                   begin_image_tokens, end_image_tokens, num_images, i,
                   returned, ret>>

\* begin_image_tokens = WrapAndTokenize(tokenizer, info, pos, begin_image_prompt);
VLM_CallBegin ==
    /\ pc = "vlm_begin"
    /\ prompt' = kBeginImagePrompt
    /\ w_caller' = "begin"
    /\ pc' = "wat_wrap"
    /\ UNCHANGED <<inputs, tokens, spp, encode_calls, w_tokens, vlm_locals,
                   returned, ret>>

\* end_image_tokens = WrapAndTokenize(tokenizer, info, pos, end_image_prompt);
VLM_CallEnd ==
    /\ pc = "vlm_end"
    /\ prompt' = kEndImagePrompt
    /\ w_caller' = "end"
    /\ pc' = "wat_wrap"
    /\ UNCHANGED <<inputs, tokens, spp, encode_calls, w_tokens, vlm_locals,
                   returned, ret>>

\* for (size_t i = 0; i < num_images; ++i) { three inserts }
VLM_Loop ==
    /\ pc = "vlm_loop"
    /\ i < num_images
    /\ tokens' = InsertImageBlock(tokens, begin_image_tokens,
                                  image_batch_size, end_image_tokens)
    /\ i' = i + 1
    /\ UNCHANGED <<inputs, prompt, spp, encode_calls, pc, w_caller, w_tokens,
                   sep_tokens, begin_image_tokens, end_image_tokens,
                   num_images, returned, ret>>

\* return tokens;
VLM_Return ==
    /\ pc = "vlm_loop"
    /\ ~(i < num_images)
    /\ ret' = tokens
    /\ returned' = TRUE
    /\ pc' = "done"
    /\ UNCHANGED <<inputs, prompt, tokens, spp, encode_calls, w_caller,
                   w_tokens, vlm_locals>>

Next ==
    \/ WAT_Wrap
    \/ WAT_Encode
    \/ WAT_Bos
    \/ WAT_Separator
    \/ WAT_NoSeparator
    \/ WAT_Return
    \/ WAT_ReturnBegin
    \/ WAT_ReturnEnd
    \/ VLM_Assert
    \/ VLM_EncodeSep
    \/ VLM_CallBegin
    \/ VLM_CallEnd
    \/ VLM_Loop
    \/ VLM_Return

Spec == Init /\ [][Next]_vars

(***************************************************************************)
(* Vocabulary of the properties.                                           *)
(***************************************************************************)
\* encode(text): the ids the processor answered for a text it encoded.
Enc(text) == spp[text].ids

\* Some Encode call made so far reported failure.
EncodeFailed == \E t \in DOMAIN spp : ~spp[t].ok

BosPrefix(p) == IF p = 0 THEN <<BOS_ID>> ELSE <<>>

\* The prompt of the top-level WrapAndTokenize call after Wrap.
WrappedPrompt == Wrap(wrapping, pos, prompt_in)

\* ceil(a / b) for b >= 1, by its definition: the least n with n * b >= a.
CeilOf(a, b) == CHOOSE n \in 0 .. a : n * b >= a /\ \A m \in 0 .. a : m * b >= a => n <= m

RECURSIVE Repeat(_, _)
Repeat(block, n) == IF n = 0 THEN <<>> ELSE block \o Repeat(block, n - 1)

Count(v, x) == Cardinality({k \in 1 .. Len(v) : v[k] = x})

\* What WrapAndTokenize returns for the two image markers inside WrapVLM.
BeginMarker == BosPrefix(pos) \o Enc(Wrap(wrapping, pos, kBeginImagePrompt))
EndMarker   == BosPrefix(pos) \o Enc(Wrap(wrapping, pos, kEndImagePrompt))
ImageBlock  == BeginMarker \o Fill(image_batch_size, IMAGE_PLACEHOLDER_ID) \o EndMarker

WatReturned == op = "WrapAndTokenize" /\ returned
VlmReturned == op = "WrapVLM" /\ returned

(***************************************************************************)
(* C1: at pos == 0 every sequence WrapAndTokenize returns (to the caller   *)
(* or to WrapVLM), in every wrapping mode, is non-empty and starts with    *)
(* BOS_ID, also when the prompt encodes to no token at all.                *)
(***************************************************************************)
C1_BosFirstAtPosZero ==
    /\ (pc = "wat_ret" /\ pos = 0) => (Len(w_tokens) >= 1 /\ w_tokens[1] = BOS_ID)
    /\ (WatReturned /\ pos = 0) => (Len(ret) >= 1 /\ ret[1] = BOS_ID)

C1_Witness ==
    /\ WatReturned /\ pos = 0
    /\ Enc(WrappedPrompt) = <<>>
    /\ ret = <<BOS_ID>>

(***************************************************************************)
(* C2: in every sequence the core returns, BOS_ID occurs at no index other *)
(* than the first.                                                         *)
(***************************************************************************)
C2_BosOnlyAtFront ==
    returned => \A k \in 2 .. Len(ret) : ret[k] # BOS_ID

(***************************************************************************)
(* C3: at pos > 0 no sequence WrapAndTokenize returns contains BOS_ID.     *)
(***************************************************************************)
C3_NoBosAfterStart ==
    /\ (pc = "wat_ret" /\ pos > 0) => \A k \in 1 .. Len(w_tokens) : w_tokens[k] # BOS_ID
    /\ (WatReturned /\ pos > 0) => \A k \in 1 .. Len(ret) : ret[k] # BOS_ID

C3_Witness ==
    /\ WatReturned /\ pos > 0
    /\ Len(ret) >= 1

(***************************************************************************)
(* C4: for PALIGEMMA at pos == 0 WrapAndTokenize returns                   *)
(* [BOS_ID] + encode(wrapped prompt) + encode("\n"); the separator comes   *)
(* from an Encode call of its own, made after the prompt was encoded and   *)
(* BOS was prepended.                                                      *)
(***************************************************************************)
C4_PaliGemmaLayout ==
    /\ (WatReturned /\ wrapping = "PALIGEMMA" /\ pos = 0) =>
          /\ ret = <<BOS_ID>> \o Enc(WrappedPrompt) \o Enc(kSeparator)
          /\ encode_calls = <<WrappedPrompt, kSeparator>>
    /\ (op = "WrapAndTokenize" /\ wrapping = "PALIGEMMA" /\ pos = 0 /\ pc = "wat_sep") =>
          /\ w_tokens = <<BOS_ID>> \o Enc(WrappedPrompt)
          /\ encode_calls = <<WrappedPrompt>>

C4_Witness ==
    /\ WatReturned /\ wrapping = "PALIGEMMA" /\ pos = 0
    /\ prompt_in = "Describe"
    /\ Len(Enc(WrappedPrompt)) >= 1
    /\ Len(Enc(kSeparator)) >= 1
    /\ Enc(WrappedPrompt) # Enc(kSeparator)
    /\ Len(ret) = 3

(***************************************************************************)
(* C5: WrapVLM returns ceil(B / M) copies of the block                     *)
(* begin_image_tokens + B placeholders + end_image_tokens, followed by the *)
(* caller's sequence unchanged, the two markers being what WrapAndTokenize *)
(* returns at the same pos.                                                *)
(***************************************************************************)
C5_VlmLayout ==
    VlmReturned =>
        ret = Repeat(ImageBlock, CeilOf(image_batch_size, max_image_batch_size))
              \o tokens_in

C5_Witness ==
    /\ VlmReturned
    /\ CeilOf(image_batch_size, max_image_batch_size) = 3
    /\ Len(Enc(Wrap(wrapping, pos, kBeginImagePrompt))) >= 1
    /\ Len(Enc(Wrap(wrapping, pos, kEndImagePrompt))) >= 1
    /\ BeginMarker # EndMarker
    /\ Len(tokens_in) >= 1
    /\ Len(ret) = 3 * Len(ImageBlock) + Len(tokens_in)

(***************************************************************************)
(* C6: WrapVLM adds exactly image_batch_size * ceil(B / M) placeholders.   *)
(***************************************************************************)
C6_PlaceholderCount ==
    VlmReturned =>
        Count(ret, IMAGE_PLACEHOLDER_ID) - Count(tokens_in, IMAGE_PLACEHOLDER_ID)
          = image_batch_size * CeilOf(image_batch_size, max_image_batch_size)

C6_Witness ==
    /\ VlmReturned
    /\ image_batch_size = 3 /\ max_image_batch_size = 2
    /\ Count(ret, IMAGE_PLACEHOLDER_ID) = 6

(***************************************************************************)
(* C7 as claimed: with image_batch_size == 0 the output of WrapVLM starts  *)
(* with begin_image_tokens immediately followed by end_image_tokens,       *)
(* before the caller's tokens.                                             *)
(***************************************************************************)
C7_Original ==
    (VlmReturned /\ image_batch_size = 0) =>
        ret = BeginMarker \o EndMarker \o tokens_in

(***************************************************************************)
(* C7 amended: with image_batch_size == 0 WrapVLM aborts only when an      *)
(* Encode call fails, and otherwise returns the caller's sequence          *)
(* unchanged: num_images is 0 and no marker token is added.                *)
(***************************************************************************)
C7_ZeroBatchUnchanged ==
    (op = "WrapVLM" /\ wrapping = "GEMMA_VLM" /\ image_batch_size = 0) =>
        /\ pc = "aborted" => EncodeFailed
        /\ pc \in {"vlm_loop", "done"} => (num_images = 0 /\ tokens = tokens_in)
        /\ returned => ret = tokens_in

C7_Witness ==
    /\ VlmReturned /\ image_batch_size = 0
    /\ Len(begin_image_tokens) >= 1
    /\ Len(end_image_tokens) >= 1
    /\ Len(tokens_in) >= 1
    /\ ret = tokens_in

(***************************************************************************)
(* C8: WrapVLM on a model that is not GEMMA_VLM ends in the fatal          *)
(* assertion before any Encode call and before the caller's sequence is    *)
(* touched, and returns nothing.                                           *)
(***************************************************************************)
C8_NonVlmAborts ==
    (op = "WrapVLM" /\ wrapping # "GEMMA_VLM") =>
        /\ pc \in {"vlm_assert", "aborted"}
        /\ encode_calls = <<>>
        /\ tokens = tokens_in
        /\ ~returned

C8_Witness ==
    /\ op = "WrapVLM" /\ wrapping = "PALIGEMMA"
    /\ pc = "aborted"
    /\ Len(tokens_in) >= 1

(***************************************************************************)
(* C9: once an Encode call has reported failure the operation is aborted   *)
(* and returns nothing; in WrapVLM the caller's sequence is then still as  *)
(* it was on entry.                                                        *)
(***************************************************************************)
C9_EncodeFailureAborts ==
    EncodeFailed =>
        /\ pc = "aborted"
        /\ ~returned
        /\ op = "WrapVLM" => tokens = tokens_in

C9_Witness ==
    /\ op = "WrapVLM" /\ pc = "aborted"
    /\ Len(encode_calls) = 3
    /\ ~spp[encode_calls[3]].ok
    /\ image_batch_size >= 1

(***************************************************************************)
(* C10: for PRETRAINED, INSTRUCTION_TUNED and GEMMA_VLM WrapAndTokenize    *)
(* returns encode(wrapped prompt), preceded by BOS_ID exactly when         *)
(* pos == 0, after a single Encode call and with no separator appended.    *)
(***************************************************************************)
C10_NoSeparatorOutsidePaliGemma ==
    (WatReturned /\ wrapping # "PALIGEMMA") =>
        /\ ret = BosPrefix(pos) \o Enc(WrappedPrompt)
        /\ encode_calls = <<WrappedPrompt>>

C10_Witness ==
    /\ WatReturned /\ wrapping = "PRETRAINED" /\ pos = 0
    /\ prompt_in = "Describe"
    /\ Len(ret) = 2
    /\ ret = <<BOS_ID>> \o Enc("Describe")

=============================================================================
